---- MODULE Spec2Model ----
(***************************************************************************)
(* mergelists-cpp (src/main.cpp): a loader that turns JSON arrays into     *)
(* Entry vectors, a MergeBuilder that keeps one winner per 'num', and a     *)
(* main() that loads every file, merges the lists and prints the result.    *)
(*                                                                          *)
(* Three specifications:                                                    *)
(*   SpecLoad   tryParsingEntries applied to bounded JSON roots             *)
(*   SpecMerge  the MergeBuilder API (addEntries / build, any interleaving) *)
(*   Spec       main(): argument check, load loop, merge loop, print        *)
(*                                                                          *)
(* JSON input is modelled as far as the loader looks at it: a root is an    *)
(* array or not, an element is an object or not, and each of the members    *)
(* num, title, created, deleted is absent, a number or a string. Numbers    *)
(* are small naturals; negative, fractional and over-wide numbers (which    *)
(* the conversions to int and uint64_t would wrap or truncate) are outside  *)
(* the model. Entries are referred to by address: the index of the caller's *)
(* list and the position in it.                                             *)
(***************************************************************************)
EXTENDS Integers, Sequences, FiniteSets, TLC

(* ------------------------------ bounds --------------------------------- *)
\* JSON numbers that occur in input files are 0..MaxNum
MaxNum == 1
\* elements of a JSON root array handed to tryParsingEntries (SpecLoad)
MaxElems == 2
\* elements of a JSON root array in a file read by main (Spec)
MaxFileElems == 2
\* files on the command line (Spec): argc ranges over 1..MaxFiles+1
MaxFiles == 2
\* MergeBuilder API (SpecMerge): keys 1..MaxKey, timestamps 0..MaxTime
MaxKey == 3
MaxTime == 1
\* calls of addEntries with a new list, and the length of a list
MaxBatches == 2
MaxBatchLen == 2

(* ---------------------------- JSON values ------------------------------ *)
\* A JSON object member is absent, a number or a string.
Absent == [kind |-> "absent", num |-> 0, str |-> ""]
JNumber(n) == [kind |-> "number", num |-> n, str |-> ""]
JString(s) == [kind |-> "string", num |-> 0, str |-> s]

FIELD_NUM == "num"
FIELD_TITLE == "title"
FIELD_CREATED == "created"
FIELD_DELETED == "deleted"

JNums == 0..MaxNum
Titles == {"a"}
JValues == {JNumber(n) : n \in JNums} \cup {JString(s) : s \in Titles}
JMembers == {Absent} \cup JValues

\* An element of the root array: an object with the four members the loader
\* looks at (other members are never read), or something that is no object.
JObject(n, t, c, d) ==
  [isObject |-> TRUE, obj |-> [num |-> n, title |-> t, created |-> c, deleted |-> d]]
NonObject ==
  [isObject |-> FALSE, obj |-> [num |-> Absent, title |-> Absent, created |-> Absent, deleted |-> Absent]]
Elems ==
  {NonObject} \cup {JObject(n, t, c, d) : n \in JMembers, t \in JMembers, c \in JMembers, d \in JMembers}

SeqsUpTo(S, n) == UNION {[1..k -> S] : k \in 0..n}

JArray(es) == [isArray |-> TRUE, elems |-> es]
NonArray == [isArray |-> FALSE, elems |-> <<>>]
Roots == {NonArray} \cup {JArray(es) : es \in SeqsUpTo(Elems, MaxElems)}

(* ------------------------------- Entry --------------------------------- *)
\* struct Entry with its member initializers; num has none and is assigned
\* by the loader before the entry is used.
DefaultEntry == [title |-> "", created |-> 0, deleted |-> 0, timestamp |-> 0, num |-> 0]

\* Entry::operator< as a non-strict comparison
EntryLessOrEqual(this, that) == this.timestamp <= that.timestamp
\* Entry::operator< with the comparison reversed
EntryGreater(this, that) == this.timestamp > that.timestamp
\* Entry::operator<
EntryLess(this, that) == this.timestamp < that.timestamp

(* ------------------------------- loader -------------------------------- *)
\* nlohmann's conversion of a JSON value to the C++ type T in 'result = *it':
\* a number converts to int / uint64_t, a string to std::string, anything
\* else throws type_error 302.
Converts(j, T) == IF T = "string" THEN j.kind = "string" ELSE j.kind = "number"
TypeErrorWhat(T) ==
  IF T = "string" THEN "[json.exception.type_error.302] type must be string"
  ELSE "[json.exception.type_error.302] type must be number"

\* getField<T>: "true" with the value, "false" with an error, or "throw"
getField(json, key, T) ==
  LET it == json[key] IN
  IF it.kind # "absent"
  THEN IF Converts(it, T)
       THEN [status |-> "true", value |-> it, error |-> ""]
       ELSE [status |-> "throw", value |-> Absent, error |-> TypeErrorWhat(T)]
  ELSE [status |-> "false", value |-> Absent,
        error |-> "Failed to get field '" \o key \o "' of an entry"]

\* tryGettingField<T>: "true" with the value, "false", or "throw"
tryGettingField(json, key, T) ==
  LET it == json[key] IN
  IF it.kind # "absent"
  THEN IF Converts(it, T)
       THEN [status |-> "true", value |-> it, error |-> ""]
       ELSE [status |-> "throw", value |-> Absent, error |-> TypeErrorWhat(T)]
  ELSE [status |-> "false", value |-> Absent, error |-> ""]

ElemFalse(msg) == [status |-> "false", entry |-> DefaultEntry, error |-> msg]
ElemThrow(what) == [status |-> "throw", entry |-> DefaultEntry, error |-> what]
ElemOk(e) == [status |-> "ok", entry |-> e, error |-> ""]

\* The timestamp assignment without the 'if( hasDeleted )' branch
AssignTimestampCreatedOnly(entry, hasCreated, hasDeleted) ==
  [entry EXCEPT !.timestamp = entry.created]
\* lines 134-139
AssignTimestamp(entry, hasCreated, hasDeleted) ==
  LET e1 == IF hasCreated THEN [entry EXCEPT !.timestamp = entry.created] ELSE entry
  IN IF hasDeleted THEN [e1 EXCEPT !.timestamp = e1.deleted] ELSE e1

\* The presence check without the test for neither member
PresenceErrorBothOnly(hasCreated, hasDeleted) ==
  IF hasCreated /\ hasDeleted THEN "Both 'created' and 'deleted' fields are present"
  ELSE ""
\* lines 126-133: the error of the presence check, "" when it passes
PresenceError(hasCreated, hasDeleted) ==
  IF hasCreated /\ hasDeleted THEN "Both 'created' and 'deleted' fields are present"
  ELSE IF ~(hasCreated \/ hasDeleted) THEN "Both 'created' and 'deleted' fields are absent"
  ELSE ""

\* The body of the loop of tryParsingEntries for one element
ParseElem(elem) ==
  IF ~elem.isObject
  THEN ElemFalse("An element of a root JSON array is not an object")
  ELSE
  LET num == getField(elem.obj, FIELD_NUM, "int") IN
  IF num.status # "true" THEN [status |-> num.status, entry |-> DefaultEntry, error |-> num.error]
  ELSE
  LET title == getField(elem.obj, FIELD_TITLE, "string") IN
  IF title.status # "true" THEN [status |-> title.status, entry |-> DefaultEntry, error |-> title.error]
  ELSE
  LET e0 == [DefaultEntry EXCEPT !.num = num.value.num, !.title = title.value.str]
      created == tryGettingField(elem.obj, FIELD_CREATED, "uint64_t")
  IN
  IF created.status = "throw" THEN ElemThrow(created.error)
  ELSE
  LET hasCreated == created.status = "true"
      e1 == IF hasCreated THEN [e0 EXCEPT !.created = created.value.num] ELSE e0
      deleted == tryGettingField(elem.obj, FIELD_DELETED, "uint64_t")
  IN
  IF deleted.status = "throw" THEN ElemThrow(deleted.error)
  ELSE
  LET hasDeleted == deleted.status = "true"
      e2 == IF hasDeleted THEN [e1 EXCEPT !.deleted = deleted.value.num] ELSE e1
      perr == PresenceError(hasCreated, hasDeleted)
  IN
  IF perr # "" THEN ElemFalse(perr)
  ELSE ElemOk(AssignTimestamp(e2, hasCreated, hasDeleted))

RECURSIVE ParseLoop(_, _, _)
\* The loop of tryParsingEntries from element k on, 'result' being the local
\* vector: the entries of the whole array, or the first failure.
ParseLoop(elems, k, result) ==
  IF k > Len(elems) THEN [status |-> "ok", result |-> result, error |-> ""]
  ELSE LET r == ParseElem(elems[k]) IN
       IF r.status = "ok" THEN ParseLoop(elems, k + 1, Append(result, r.entry))
       ELSE [status |-> r.status, result |-> result, error |-> r.error]

\* tryParsingEntries( root, output, error ): what it returns ("true",
\* "false", or "throw" when an exception leaves it), and the values of the
\* reference parameters output and error afterwards.
tryParsingEntries(rt, outp, errIn) ==
  IF ~rt.isArray
  THEN [ret |-> "false", output |-> outp, error |-> "The root JSON object is not an array", what |-> ""]
  ELSE LET r == ParseLoop(rt.elems, 1, <<>>) IN
       IF r.status = "ok" THEN [ret |-> "true", output |-> r.result, error |-> errIn, what |-> ""]
       ELSE IF r.status = "false" THEN [ret |-> "false", output |-> outp, error |-> r.error, what |-> ""]
       ELSE [ret |-> "throw", output |-> outp, error |-> errIn, what |-> r.error]

(* ---------------------------- MergeBuilder ------------------------------ *)
\* A const Entry *: the address of element idx of the caller's list number
\* list. The lists are owned by the caller (readLists) and never move.
Ptr(b, j) == [list |-> b, idx |-> j]
Deref(lists, p) == lists[p.list][p.idx]

\* The loop body of addEntries with the bucket looked up by the wrong member
AddEntryKeyedByTimestamp(bk, lists, p) ==
  LET entry == Deref(lists, p) IN
  IF entry.timestamp \notin DOMAIN bk THEN bk @@ (entry.timestamp :> p)
  ELSE IF ~EntryLess(Deref(lists, bk[entry.timestamp]), entry) THEN bk
  ELSE [bk EXCEPT ![entry.timestamp] = p]
\* The loop body of addEntries without the check that preserves the existing entry
AddEntryAlwaysOverwrite(bk, lists, p) ==
  LET entry == Deref(lists, p) IN
  IF entry.num \notin DOMAIN bk THEN bk @@ (entry.num :> p)
  ELSE [bk EXCEPT ![entry.num] = p]
\* The loop body of addEntries for the entry at address p: insert, keep the
\* existing entry, or overwrite it in place.
AddEntry(bk, lists, p) ==
  LET entry == Deref(lists, p) IN
  IF entry.num \notin DOMAIN bk THEN bk @@ (entry.num :> p)
  ELSE IF ~EntryLess(Deref(lists, bk[entry.num]), entry) THEN bk
  ELSE [bk EXCEPT ![entry.num] = p]

RECURSIVE AddFrom(_, _, _, _)
\* The range-for of addEntries over list b from element j on
AddFrom(bk, lists, b, j) ==
  IF j > Len(lists[b]) THEN bk
  ELSE AddFrom(AddEntry(bk, lists, Ptr(b, j)), lists, b, j + 1)

\* MergeBuilder::addEntries( entries ) for entries = lists[b]: the buckets afterwards
addEntries(bk, lists, b) == AddFrom(bk, lists, b, 1)

\* The comparator of build() comparing the pointers themselves
cmpAddresses(lists, lhs, rhs) ==
  lhs.list < rhs.list \/ (lhs.list = rhs.list /\ lhs.idx < rhs.idx)
\* The comparator of build(): *lhs < *rhs
cmp(lists, lhs, rhs) == EntryLess(Deref(lists, lhs), Deref(lists, rhs))

Perms(S) ==
  {f \in [1..Cardinality(S) -> S] : \A a, b \in 1..Cardinality(S) : a # b => f[a] # f[b]}

\* What std::sort may leave in the vector that build() filled from the
\* unordered_map: the iteration order of the map is unspecified and the sort
\* is not stable, so every arrangement of the bucket values that the
\* comparator accepts as sorted is a possible outcome.
SortOutputs(bk, lists) ==
  {s \in {[k \in 1..Cardinality(DOMAIN bk) |-> bk[f[k]]] : f \in Perms(DOMAIN bk)} :
     \A k \in 1..(Len(s) - 1) : ~cmp(lists, s[k + 1], s[k])}

\* build() that empties the map while it collects the values
buildDraining(bk, lists) == [results |-> SortOutputs(bk, lists), buckets |-> <<>>]
\* MergeBuilder::build(): the vectors it may return, and the buckets afterwards
build(bk, lists) == [results |-> SortOutputs(bk, lists), buckets |-> bk]

(* ------------------------------ printer -------------------------------- *)
\* The object printEntries builds for one entry; its members as JSON values
PrintedObject(entry) ==
  [num |-> JNumber(entry.num),
   title |-> JString(entry.title),
   created |-> IF entry.created # 0 THEN JNumber(entry.created) ELSE Absent,
   deleted |-> IF entry.deleted # 0 THEN JNumber(entry.deleted) ELSE Absent]

\* printEntries( entries ): the JSON root dumped to std::cout; root stays
\* null when there is no entry to emplace.
printEntries(lists, entries) ==
  [written |-> TRUE,
   isNull |-> entries = <<>>,
   elems |-> [k \in 1..Len(entries) |-> PrintedObject(Deref(lists, entries[k]))]]

NothingWritten == [written |-> FALSE, isNull |-> FALSE, elems |-> <<>>]

(* ------------------------------- files --------------------------------- *)
\* What a file named on the command line holds when main opens it
NoOpen == [kind |-> "noopen", root |-> NonArray]
Malformed == [kind |-> "malformed", root |-> NonArray]
JsonFile(r) == [kind |-> "json", root |-> r]

FileElems ==
  {NonObject} \cup
  {JObject(JNumber(n), JString(s), c, d) : n \in JNums, s \in Titles, c \in JMembers, d \in JMembers}
FileRoots == {NonArray} \cup {JArray(es) : es \in SeqsUpTo(FileElems, MaxFileElems)}
FileContents == {NoOpen, Malformed} \cup {JsonFile(r) : r \in FileRoots}

\* tryReadingEntries( filename, output, error ): the return value and the
\* reference parameters afterwards; every exception becomes error = ex.what()
tryReadingEntries(file, outp, errIn) ==
  IF file.kind = "noopen"
  THEN [ret |-> FALSE, output |-> outp, error |-> "Failed to open a file stream"]
  ELSE IF file.kind = "malformed"
  THEN [ret |-> FALSE, output |-> outp, error |-> "[json.exception.parse_error.101] parse error"]
  ELSE LET r == tryParsingEntries(file.root, outp, errIn) IN
       IF r.ret = "throw" THEN [ret |-> FALSE, output |-> r.output, error |-> r.what]
       ELSE [ret |-> r.ret = "true", output |-> r.output, error |-> r.error]

(* ------------------------------- state --------------------------------- *)
VARIABLES
  argc,       \* main: number of command-line words (program name included)
  pc,         \* main: "start", "load", "merge", "exit"
  i,          \* main: index of the load loop
  files,      \* history: the argv index and the content of each file opened so far
  readLists,  \* the caller-owned lists of entries (main: readLists)
  error,      \* the std::string error of main / of the caller of the loader
  err,        \* what main wrote to std::cerr
  out,        \* what main wrote to std::cout
  exitCode,   \* the value main returned, -1 while it runs
  nAdded,     \* main: lists already passed to addEntries by the merge loop
  buckets,    \* MergeBuilder::buckets
  result,     \* the vector returned by the latest call when it was build()
  lastOp,     \* the latest MergeBuilder call: "none", "addEntries", "build"
  root,       \* loader call: the JSON root passed to tryParsingEntries
  output,     \* loader call: the caller's output vector
  ret         \* loader call: "none" before the call, then "true"/"false"/"throw"

vars ==
  <<argc, pc, i, files, readLists, error, err, out, exitCode, nAdded,
    buckets, result, lastOp, root, output, ret>>
mainVars == <<argc, pc, i, files, err, out, exitCode, nAdded>>
loaderVars == <<root, output, ret>>
builderVars == <<buckets, result, lastOp>>

NoErr == [kind |-> "none", file |-> 0, error |-> ""]

MainIdle ==
  /\ pc = "start" /\ i = 0 /\ files = <<>> /\ err = NoErr
  /\ out = NothingWritten /\ exitCode = -1 /\ nAdded = 0
BuilderFresh == buckets = <<>> /\ result = <<>> /\ lastOp = "none"
LoaderIdle == root = NonArray /\ output = <<>> /\ ret = "none"

(* -------------------------- SpecLoad: the loader ----------------------- *)
\* What the caller's vector may hold before the call: nothing, or the
\* entries of an earlier load.
PriorOutputs ==
  {<<>>,
   tryParsingEntries(JArray(<<JObject(JNumber(0), JString("a"), JNumber(0), Absent)>>), <<>>, "").output}

InitLoad ==
  /\ argc = 1 /\ MainIdle /\ BuilderFresh
  /\ readLists = <<>> /\ error = ""
  /\ root \in Roots
  /\ output \in PriorOutputs
  /\ ret = "none"

TryParsingEntries ==
  /\ ret = "none"
  /\ LET r == tryParsingEntries(root, output, error) IN
       /\ ret' = r.ret
       /\ output' = r.output
       /\ error' = r.error
  /\ UNCHANGED <<root, readLists>>
  /\ UNCHANGED mainVars
  /\ UNCHANGED builderVars

NextLoad == TryParsingEntries
SpecLoad == InitLoad /\ [][NextLoad]_vars

(* --------------------- SpecMerge: the MergeBuilder API ----------------- *)
Keys == 1..MaxKey
Times == 0..MaxTime

\* The entries the loader makes of valid elements
ValidEntries ==
  {ParseElem(JObject(JNumber(n), JString(s), JNumber(t), Absent)).entry :
     n \in Keys, s \in Titles, t \in Times}
  \cup
  {ParseElem(JObject(JNumber(n), JString(s), Absent, JNumber(t))).entry :
     n \in Keys, s \in Titles, t \in Times}
Batches == SeqsUpTo(ValidEntries, MaxBatchLen)

InitMerge ==
  /\ argc = 1 /\ MainIdle /\ LoaderIdle /\ BuilderFresh
  /\ readLists = <<>> /\ error = ""

\* The caller creates a list and passes it to addEntries
AddNewList ==
  /\ Len(readLists) < MaxBatches
  /\ \E batch \in Batches :
       /\ readLists' = Append(readLists, batch)
       /\ buckets' = addEntries(buckets, readLists', Len(readLists'))
  /\ result' = <<>>
  /\ lastOp' = "addEntries"
  /\ UNCHANGED error
  /\ UNCHANGED mainVars
  /\ UNCHANGED loaderVars

\* The caller passes a list to addEntries once more
AddListAgain ==
  /\ \E b \in 1..Len(readLists) : buckets' = addEntries(buckets, readLists, b)
  /\ result' = <<>>
  /\ lastOp' = "addEntries"
  /\ UNCHANGED <<readLists, error>>
  /\ UNCHANGED mainVars
  /\ UNCHANGED loaderVars

\* The caller calls build()
Build ==
  /\ \E r \in build(buckets, readLists).results : result' = r
  /\ buckets' = build(buckets, readLists).buckets
  /\ lastOp' = "build"
  /\ UNCHANGED <<readLists, error>>
  /\ UNCHANGED mainVars
  /\ UNCHANGED loaderVars

NextMerge == AddNewList \/ AddListAgain \/ Build
SpecMerge == InitMerge /\ [][NextMerge]_vars

(* ------------------------------ Spec: main ----------------------------- *)
MinArgc == 3

Init ==
  /\ argc \in 1..(MaxFiles + 1)
  /\ MainIdle /\ LoaderIdle /\ BuilderFresh
  /\ readLists = <<>> /\ error = ""

\* lines 184-187
CheckArgs ==
  /\ pc = "start"
  /\ IF argc < MinArgc
     THEN /\ err' = [kind |-> "usage", file |-> 0, error |-> ""]
          /\ exitCode' = 1
          /\ pc' = "exit"
          /\ i' = i
     ELSE /\ pc' = "load"
          /\ i' = 1
          /\ UNCHANGED <<err, exitCode>>
  /\ UNCHANGED <<argc, files, readLists, error, out, nAdded>>
  /\ UNCHANGED builderVars
  /\ UNCHANGED loaderVars

\* The load loop going on to the next file after a failed load
ReadFileStepSkipFailed(file) ==
  LET r == tryReadingEntries(file, <<>>, error) IN
  /\ files' = Append(files, [arg |-> i, file |-> file])
  /\ error' = r.error
  /\ IF ~r.ret
     THEN /\ err' = [kind |-> "load", file |-> i, error |-> r.error]
          /\ UNCHANGED <<readLists, exitCode>>
     ELSE /\ readLists' = Append(readLists, r.output)
          /\ UNCHANGED <<err, exitCode>>
  /\ i' = i + 1
  /\ pc' = IF i + 1 < argc THEN "load" ELSE "merge"
\* One iteration of the load loop (lines 194-201) when argv[i] holds file
ReadFileStep(file) ==
  LET r == tryReadingEntries(file, <<>>, error) IN
  /\ files' = Append(files, [arg |-> i, file |-> file])
  /\ error' = r.error
  /\ IF ~r.ret
     THEN /\ err' = [kind |-> "load", file |-> i, error |-> r.error]
          /\ exitCode' = 1
          /\ pc' = "exit"
          /\ UNCHANGED <<readLists, i>>
     ELSE /\ readLists' = Append(readLists, r.output)
          /\ i' = i + 1
          /\ pc' = IF i + 1 < argc THEN "load" ELSE "merge"
          /\ UNCHANGED <<err, exitCode>>

ReadFile ==
  /\ pc = "load"
  /\ i < argc
  /\ \E file \in FileContents : ReadFileStep(file)
  /\ UNCHANGED <<argc, out, nAdded>>
  /\ UNCHANGED builderVars
  /\ UNCHANGED loaderVars

\* One iteration of the merge loop (lines 204-206)
AddList ==
  /\ pc = "merge"
  /\ nAdded < Len(readLists)
  /\ buckets' = addEntries(buckets, readLists, nAdded + 1)
  /\ nAdded' = nAdded + 1
  /\ lastOp' = "addEntries"
  /\ UNCHANGED <<argc, pc, i, files, readLists, error, err, out, exitCode, result>>
  /\ UNCHANGED loaderVars

\* printEntries( builder.build() ); return 0
PrintResult ==
  /\ pc = "merge"
  /\ nAdded = Len(readLists)
  /\ \E r \in build(buckets, readLists).results :
       /\ result' = r
       /\ out' = printEntries(readLists, r)
  /\ buckets' = build(buckets, readLists).buckets
  /\ lastOp' = "build"
  /\ exitCode' = 0
  /\ pc' = "exit"
  /\ UNCHANGED <<argc, i, files, readLists, error, err, nAdded>>
  /\ UNCHANGED loaderVars

Next == CheckArgs \/ ReadFile \/ AddList \/ PrintResult
Spec == Init /\ [][Next]_vars

(* ------------------------ properties: MergeBuilder --------------------- *)
Range(f) == {f[x] : x \in DOMAIN f}
\* The addresses of all entries of the caller's lists
AllPtrs(lists) == UNION {{Ptr(b, j) : j \in 1..Len(lists[b])} : b \in 1..Len(lists)}
PtrsOfKey(lists, k) == {p \in AllPtrs(lists) : Deref(lists, p).num = k}
KeysAdded(lists) == {Deref(lists, p).num : p \in AllPtrs(lists)}
TsOf(lists, p) == Deref(lists, p).timestamp
\* The greatest timestamp among the entries with key k
MaxTs(lists, k) ==
  CHOOSE t \in {TsOf(lists, p) : p \in PtrsOfKey(lists, k)} :
    \A p \in PtrsOfKey(lists, k) : TsOf(lists, p) <= t
\* In SpecMerge list b is first passed to addEntries before list b+1, and
\* addEntries walks a list front to back: p was encountered before q
Before(p, q) == p.list < q.list \/ (p.list = q.list /\ p.idx < q.idx)
TopPtrs(lists, k) == {p \in PtrsOfKey(lists, k) : TsOf(lists, p) = MaxTs(lists, k)}
TsSeq(lists, r) == [x \in 1..Len(r) |-> TsOf(lists, r[x])]

\* C1 (last write wins): after any sequence of addEntries calls every key
\* that occurs in an added entry has a winner, the winner is an entry with
\* that key, and its timestamp is the greatest timestamp of the added entries
\* with that key.
ThmC1_LastWriteWins ==
  \A k \in KeysAdded(readLists) :
    /\ k \in DOMAIN buckets
    /\ buckets[k] \in PtrsOfKey(readLists, k)
    /\ TsOf(readLists, buckets[k]) = MaxTs(readLists, k)

\* Both orders in one state: for one key the later entry is newer and has
\* replaced the winner, for another the earlier entry is newer and was kept.
WitC1_BothOrders ==
  /\ \E p, q \in AllPtrs(readLists) :
       /\ Before(p, q) /\ Deref(readLists, p).num = Deref(readLists, q).num
       /\ TsOf(readLists, p) < TsOf(readLists, q)
       /\ buckets[Deref(readLists, q).num] = q
  /\ \E p, q \in AllPtrs(readLists) :
       /\ Before(p, q) /\ Deref(readLists, p).num = Deref(readLists, q).num
       /\ TsOf(readLists, p) > TsOf(readLists, q)
       /\ buckets[Deref(readLists, p).num] = p

\* C2 (first seen wins on a tie): the winner of a key is the entry that was
\* encountered first among the entries holding the greatest timestamp of
\* that key, and it is the only entry kept for the key.
ThmC2_FirstSeenWinsTie ==
  \A k \in KeysAdded(readLists) :
    /\ k \in DOMAIN buckets
    /\ buckets[k] \in TopPtrs(readLists, k)
    /\ \A p \in TopPtrs(readLists, k) : p = buckets[k] \/ Before(buckets[k], p)
    /\ Cardinality({x \in DOMAIN buckets : Deref(readLists, buckets[x]).num = k}) = 1

\* Ties within one list and across two addEntries calls: the same key and
\* timestamp in entries that differ, the first of them being the winner.
WitC2_Tie ==
  /\ \E p, q \in AllPtrs(readLists) :
       /\ p.list < q.list
       /\ Deref(readLists, p).num = Deref(readLists, q).num
       /\ TsOf(readLists, p) = TsOf(readLists, q)
       /\ Deref(readLists, p) # Deref(readLists, q)
       /\ buckets[Deref(readLists, p).num] = p
  /\ \E p, q \in AllPtrs(readLists) :
       /\ p.list = q.list /\ p.idx < q.idx
       /\ Deref(readLists, p).num = Deref(readLists, q).num
       /\ TsOf(readLists, p) = TsOf(readLists, q)
       /\ buckets[Deref(readLists, p).num] = p

\* C3 (union of keys, deduplicated): the vector build() returns holds exactly
\* one entry for each key that occurs in an added list and nothing else.
ThmC3_UnionOfKeys ==
  lastOp = "build" =>
    /\ {Deref(readLists, result[x]).num : x \in 1..Len(result)} = KeysAdded(readLists)
    /\ \A x, y \in 1..Len(result) :
         x # y => Deref(readLists, result[x]).num # Deref(readLists, result[y]).num
    /\ \A x \in 1..Len(result) : result[x] \in AllPtrs(readLists)

\* build() after two lists that share a key and each bring a key of their own
WitC3_Dedup ==
  /\ lastOp = "build"
  /\ Len(readLists) = 2
  /\ KeysAdded(<<readLists[1]>>) \cap KeysAdded(<<readLists[2]>>) # {}
  /\ KeysAdded(<<readLists[1]>>) \ KeysAdded(<<readLists[2]>>) # {}
  /\ KeysAdded(<<readLists[2]>>) \ KeysAdded(<<readLists[1]>>) # {}
  /\ Len(result) = 3

\* C4 (sorted): in every vector build() returns, each entry's timestamp is at
\* most the timestamp of the entry after it.
ThmC4_SortedByTimestamp ==
  lastOp = "build" =>
    \A x \in 1..(Len(result) - 1) :
      TsOf(readLists, result[x]) <= TsOf(readLists, result[x + 1])

\* A result of three entries in which the sort had to move an entry that was
\* added later in front of one added earlier, and two entries tie.
WitC4_Reordered ==
  /\ lastOp = "build"
  /\ Len(result) = 3
  /\ TsOf(readLists, result[1]) < TsOf(readLists, result[3])
  /\ Before(result[3], result[1])
  /\ \E x \in 1..2 : TsOf(readLists, result[x]) = TsOf(readLists, result[x + 1])

RECURSIVE MergeInOrder(_, _)
\* The buckets of a fresh MergeBuilder after addEntries( lists[order[x]] )
\* for x = 1, 2, ..., Len(order)
MergeInOrder(lists, order) ==
  IF order = <<>> THEN <<>>
  ELSE addEntries(MergeInOrder(lists, SubSeq(order, 1, Len(order) - 1)),
                  lists, order[Len(order)])

\* C5 (build is a pure read): a call of build() leaves the buckets as they
\* were; what it returns is the winners of all lists added so far, also of
\* those added before an earlier build(); and build() right after build()
\* returns the same set of winners.
ThmC5_BuildPureRead ==
  [][lastOp' = "build" =>
       /\ buckets' = buckets
       /\ Range(result') = Range(buckets)
       /\ Range(result') =
            Range(MergeInOrder(readLists', [x \in 1..Len(readLists') |-> x]))
       /\ (lastOp = "build" => Range(result') = Range(result))]_vars

\* build() has returned two winners of two lists and the buckets still hold them
WitC5_BuiltAndKept ==
  /\ lastOp = "build"
  /\ Len(readLists) = 2 /\ readLists[1] # <<>> /\ readLists[2] # <<>>
  /\ Len(result) >= 2
  /\ Range(buckets) = Range(result)

\* C9 (order independence): a fresh MergeBuilder given the same lists in any
\* other order ends with the same keys and, for each key, a winner with the
\* same timestamp, so build() returns the same sequence of timestamps; where
\* only one entry holds the greatest timestamp of a key, the winner is that
\* same entry in every order.
ThmC9_OrderIndependent ==
  \A order \in Perms(1..Len(readLists)) :
    LET other == MergeInOrder(readLists, order) IN
    /\ DOMAIN other = DOMAIN buckets
    /\ \A k \in DOMAIN buckets :
         /\ TsOf(readLists, other[k]) = TsOf(readLists, buckets[k])
         /\ (Cardinality(TopPtrs(readLists, k)) = 1 => other[k] = buckets[k])
    /\ (lastOp = "build" =>
          \A r \in build(other, readLists).results :
            TsSeq(readLists, r) = TsSeq(readLists, result))

\* Two lists that disagree about one key (the older entry added last) and
\* tie on another, where the other order picks the other tied entry.
WitC9_OrderMatters ==
  /\ lastOp = "build"
  /\ Len(readLists) = 2
  /\ \E p, q \in AllPtrs(readLists) :
       /\ p.list = 1 /\ q.list = 2
       /\ Deref(readLists, p).num = Deref(readLists, q).num
       /\ TsOf(readLists, p) > TsOf(readLists, q)
  /\ \E k \in DOMAIN buckets :
       MergeInOrder(readLists, <<2, 1>>)[k] # buckets[k]

(* --------------------------- properties: loader ------------------------ *)
Present(j) == j.kind # "absent"
\* An element the loader accepts: an object with a number num, a string
\* title and exactly one of created / deleted, that one being a number
ValidElem(e) ==
  /\ e.isObject
  /\ e.obj.num.kind = "number"
  /\ e.obj.title.kind = "string"
  /\ \/ e.obj.created.kind = "number" /\ e.obj.deleted.kind = "absent"
     \/ e.obj.created.kind = "absent" /\ e.obj.deleted.kind = "number"
\* A present member that does not convert to the type of the Entry member
WrongType(e) ==
  /\ e.isObject
  /\ \/ e.obj.num.kind = "string"
     \/ e.obj.title.kind = "number"
     \/ e.obj.created.kind = "string"
     \/ e.obj.deleted.kind = "string"
\* Entry e carries the one timestamp member of object o and mirrors it
EntryMirrors(e, o) ==
  /\ e.num = o.num.num
  /\ e.title = o.title.str
  /\ Present(o.created) # Present(o.deleted)
  /\ Present(o.created) =>
       e.created = o.created.num /\ e.deleted = 0 /\ e.timestamp = o.created.num
  /\ Present(o.deleted) =>
       e.deleted = o.deleted.num /\ e.created = 0 /\ e.timestamp = o.deleted.num
LoadedAll(rt, outp) ==
  /\ Len(outp) = Len(rt.elems)
  /\ \A k \in 1..Len(outp) : EntryMirrors(outp[k], rt.elems[k].obj)
AllValid(rt) == rt.isArray /\ \A k \in 1..Len(rt.elems) : ValidElem(rt.elems[k])

\* C10 as stated: every entry placed in the output has exactly one of
\* created / deleted from its element and timestamp equal to it, the other
\* staying 0; on any failure tryParsingEntries returns false and the caller's
\* output vector is unchanged.
CexC10_FailureReturnsFalse ==
  [][(ret = "none" /\ ret' # "none") =>
       /\ (ret' = "true" => LoadedAll(root, output'))
       /\ (ret' # "true" => ret' = "false" /\ output' = output)]_vars

\* C10 amended: the entries are as stated and the call succeeds exactly when
\* every element is valid; on a failure the caller's output vector is
\* unchanged, and tryParsingEntries returns false with an error message
\* unless a present member has a JSON type that does not convert, in which
\* case the conversion may throw and the call is left by the exception.
ThmC10_LoaderInvariant ==
  [][(ret = "none" /\ ret' # "none") =>
       /\ (ret' = "true") = AllValid(root)
       /\ (ret' = "true" => LoadedAll(root, output'))
       /\ (ret' # "true" => output' = output)
       /\ (ret' = "false" => error' # "")
       /\ (ret' = "throw" => \E k \in 1..Len(root.elems) : WrongType(root.elems[k]))
       /\ ((ret' # "true" /\ \A k \in 1..Len(root.elems) : ~WrongType(root.elems[k]))
             => ret' = "false")]_vars

\* A failed call on an array whose first element is valid (with deleted
\* set) while the caller's vector held entries: they are still there.
WitC10_FailedAfterValidElem ==
  /\ ret = "false"
  /\ root.isArray /\ Len(root.elems) = 2
  /\ ValidElem(root.elems[1]) /\ Present(root.elems[1].obj.deleted)
  /\ ~ValidElem(root.elems[2])
  /\ output # <<>>

(* ---------------------------- properties: main ------------------------- *)
LoadOk(file) == tryReadingEntries(file, <<>>, "").ret
BothMsg == "Both 'created' and 'deleted' fields are present"
NeitherMsg == "Both 'created' and 'deleted' fields are absent"
\* An element with both created and deleted, or with neither
BothOrNeither(e) == e.isObject /\ Present(e.obj.created) = Present(e.obj.deleted)
HasBothOrNeither(file) ==
  /\ file.kind = "json"
  /\ file.root.isArray
  /\ \E k \in 1..Len(file.root.elems) : BothOrNeither(file.root.elems[k])
\* The first element of the file that does not load is k, and what stops it
\* is that both members are there as numbers (both = TRUE) or neither is
FirstBadIs(file, k, both) ==
  /\ \A x \in 1..(k - 1) : ValidElem(file.root.elems[x])
  /\ LET o == file.root.elems[k].obj IN
       /\ file.root.elems[k].isObject
       /\ o.num.kind = "number" /\ o.title.kind = "string"
       /\ IF both THEN o.created.kind = "number" /\ o.deleted.kind = "number"
          ELSE o.created.kind = "absent" /\ o.deleted.kind = "absent"
NoMergeYet == nAdded = 0 /\ buckets = <<>> /\ lastOp = "none" /\ result = <<>>

\* C6 as stated: for every entry of the build() output printEntries emits an
\* object with num, title and exactly one of created / deleted, the one the
\* input element had, with its value, also when that value is 0.
CexC6_PrintsTheGivenTimestamp ==
  out.written =>
    /\ Len(out.elems) = Len(result)
    /\ \A x \in 1..Len(result) :
         LET o == out.elems[x]
             src == files[result[x].list].file.root.elems[result[x].idx].obj
         IN /\ o.num = src.num
            /\ o.title = src.title
            /\ Present(o.created) # Present(o.deleted)
            /\ o.created = src.created
            /\ o.deleted = src.deleted

\* C7 (validation rejection): a file with an element that has both created
\* and deleted, or neither, fails to load with an error message that main
\* reports for that file (the message of the presence check when that check
\* is what stops the load), and main never passes any list to addEntries.
ThmC7_InvalidNeverMerged ==
  \A k \in 1..Len(files) :
    HasBothOrNeither(files[k].file) =>
      /\ ~LoadOk(files[k].file)
      /\ pc = "exit" /\ exitCode = 1
      /\ err.kind = "load" /\ err.file = files[k].arg /\ err.error # ""
      /\ \A x \in 1..Len(files[k].file.root.elems) :
           /\ FirstBadIs(files[k].file, x, TRUE) => err.error = BothMsg
           /\ FirstBadIs(files[k].file, x, FALSE) => err.error = NeitherMsg
      /\ Len(readLists) = k - 1
      /\ NoMergeYet
      /\ ~out.written

\* The second file has a valid element followed by one with neither member,
\* after a first file that loaded an entry: main has stopped without merging.
WitC7_SecondFileRejected ==
  /\ pc = "exit"
  /\ Len(files) = 2
  /\ Len(readLists) = 1 /\ readLists[1] # <<>>
  /\ files[2].file.kind = "json" /\ files[2].file.root.isArray
  /\ Len(files[2].file.root.elems) = 2
  /\ ValidElem(files[2].file.root.elems[1])
  /\ FirstBadIs(files[2].file, 2, FALSE)
  /\ err.error = NeitherMsg

\* C8 (fail-fast load): the files are opened in argument order; when a load
\* fails, it is the last file opened, main has returned 1 with a message
\* naming it, nothing was merged and nothing was written to std::cout;
\* merging and printing happen only after all argc-1 files have loaded, and
\* main returns 0 exactly when it has printed.
ThmC8_FailFast ==
  /\ \A k \in 1..Len(files) : files[k].arg = k
  /\ Len(files) <= argc - 1
  /\ \A k \in 1..Len(files) :
       ~LoadOk(files[k].file) =>
         /\ k = Len(files)
         /\ pc = "exit" /\ exitCode = 1
         /\ err.kind = "load" /\ err.file = k /\ err.error # ""
         /\ NoMergeYet
         /\ ~out.written
  /\ (~NoMergeYet \/ out.written \/ pc = "merge") =>
       /\ argc >= MinArgc
       /\ Len(files) = argc - 1
       /\ Len(readLists) = argc - 1
       /\ \A k \in 1..Len(files) : LoadOk(files[k].file)
  /\ out.written = (pc = "exit" /\ exitCode = 0)
  /\ out.written => nAdded = argc - 1 /\ err = NoErr
  /\ pc # "exit" => exitCode = -1
  /\ (pc = "exit" /\ \A k \in 1..Len(files) : LoadOk(files[k].file)) =>
       (exitCode = 0) = (argc >= MinArgc)

\* Three arguments, the load of the first file failed: main is done, the
\* second file was never opened.
WitC8_FirstOfTwoFails ==
  /\ argc = 3
  /\ pc = "exit" /\ exitCode = 1
  /\ Len(files) = 1 /\ ~LoadOk(files[1].file)
  /\ err.file = 1

====
